---- MODULE Spec2Model ----
(***************************************************************************)
(* Model of the Instagram OSINT tool: the rate-limited, retrying HTTP      *)
(* layer, the profile page parse, post extraction, media download and      *)
(* output-directory allocation, for both programs of the repository:       *)
(*   impl = "lib" : src/InstagramOSINT.py  (class InstagramOSINT + main)   *)
(*   impl = "cli" : src/main.py            (class InstagramOSINT + main)   *)
(* Time is in whole seconds.  The only clock reading the programs take is  *)
(* elapsed = time.time() - self.last_request_time in _rate_limit, so the   *)
(* state holds that difference; it starts beyond any interval because      *)
(* last_request_time starts at 0, the epoch.  The network and the disk are *)
(* the environment: every HTTP attempt succeeds or fails transiently and   *)
(* takes 0..MaxLatency seconds, every file write succeeds or raises.       *)
(***************************************************************************)
EXTENDS Integers, Sequences, FiniteSets, TLC

VARIABLES
    impl,               \* which program runs: "lib" or "cli"
    args,               \* command line / constructor arguments
    page,               \* the page the server returns for the profile URL
    fs,                 \* the paths that exist on disk
    elapsed,            \* time.time() - self.last_request_time, up to TimeHorizon
    gap,                \* time between the last two HTTP requests issued (history)
    requests,           \* number of HTTP requests issued, up to 2 (history)
    status,             \* state of the latest _make_request call
    retry_count,        \* retry_count of the current frame of _make_request
    attempts,           \* HTTP attempts made by the latest _make_request call
    backoffs,           \* the backoff sleeps of the latest _make_request call
    req_url,            \* what the latest _make_request call asked for
    pc,                 \* position of the run
    output_dir,         \* the directory the run writes to
    allocated,          \* what _create_output_directory returned, call by call
    profile_data,       \* self.profile_data
    profile_meta,       \* the user node of self.profile_meta
    posts,              \* lib: value of scrape_posts(); cli: posts_data
    idx,                \* index of the post the download loop is at
    media_requests,     \* URLs _make_request was called for by the media step
    failures,           \* requests that returned None and writes that raised
    exit_code,          \* process exit code, -1 while running
    runs,               \* number of program starts so far
    racers              \* processes of src/main.py started at the same time

vars == <<impl, args, page, fs, elapsed, gap, requests, status,
          retry_count, attempts, backoffs, req_url, pc, output_dir, allocated,
          profile_data, profile_meta, posts, idx, media_requests, failures,
          exit_code, runs, racers>>

reqVars == <<elapsed, gap, requests, status, retry_count, attempts,
             backoffs, req_url>>

(***************************************************************************)
(* Bounds of the model.                                                    *)
(***************************************************************************)
MaxEdges == 3        \* longest list of post edges in the snapshot (lib runs)
MaxCliEdges == 2     \* longest list of post edges in the snapshot (cli runs)
MaxMixed == 2        \* longest list of post edges drawn from every kind of node
MaxLimit == 3        \* largest --limit given on the command line
MaxLatency == 1      \* longest duration of one HTTP attempt
MaxExisting == 3     \* largest suffix of a result directory present at start
MaxRetriesArg == 3   \* largest max_retries given to the lib constructor
MaxRuns == 2         \* program starts in the same working directory
MaxRacers == 2       \* processes started at the same time in one directory

(***************************************************************************)
(* Program constants.                                                      *)
(***************************************************************************)
min_request_interval == 2
CliMaxRetries == 3
DefaultLimit == 12
MinPostDelay == 1
MaxPostDelay == 3

\* _rate_limit only compares the clock difference with min_request_interval:
\* differences beyond the interval are not told apart
TimeHorizon == min_request_interval + 1

KeyAbsent == "<absent>"     \* a key the JSON object does not have
NoCount == -1               \* an edge object without a count

(***************************************************************************)
(* The page.  The snapshot script holds the user node; a post edge's node  *)
(* carries the fields the post code reads.  cap_edges is the shape of      *)
(* edge_media_to_caption.edges: "absent" (no such key), "empty" ([]) or    *)
(* "one" (a first element whose node.text is `text`).                      *)
(***************************************************************************)
PostNode(id, cap, video, url) ==
    [id |-> id, cap_edges |-> cap, text |-> "caption", is_video |-> video,
     display_url |-> url]

UserNode(private, hd, sd, followed, follow, media, hasEdges, edges) ==
    [username |-> "user", full_name |-> "Full Name", is_private |-> private,
     profile_pic_url_hd |-> hd, profile_pic_url |-> sd,
     edge_followed_by |-> followed, edge_follow |-> follow,
     media_count |-> media, has_edges |-> hasEdges, edges |-> edges]

NoUser == UserNode(FALSE, KeyAbsent, KeyAbsent, NoCount, NoCount, NoCount, FALSE, <<>>)

\* meta: has the og:description tag, and its content split on whitespace
\* jsonld: "absent", "invalid" (not JSON) or "dict" with the keys it holds
\* script: "absent" (no script with window._sharedData), "malformed" (the
\*   literal is not JSON), "nouser" (the path to the user node is missing), "ok"
Page(hasMeta, tokens, ld, ldKeys, script, user) ==
    [has_meta |-> hasMeta, tokens |-> tokens, jsonld |-> ld, ld_keys |-> ldKeys,
     script |-> script, user |-> user]

(***************************************************************************)
(* ProfileRecord.  The empty dict is the record with present = FALSE.      *)
(* Field names are those of src/main.py; src/InstagramOSINT.py uses the    *)
(* capitalised display keys ("Is Private", ...) for the same values.       *)
(***************************************************************************)
EmptyProfile ==
    [present |-> FALSE, username |-> "", profile_name |-> "", url |-> "",
     followers |-> "", following |-> "", posts |-> "", profile_pic_url |-> "",
     is_private |-> FALSE]

\* str(count), and 'N/A' for .get('count', 'N/A') on an edge without a count
Digits == <<"0", "1", "2", "3", "4", "5", "6", "7", "8", "9">>

CountStr(c) == IF c = NoCount THEN "N/A" ELSE Digits[c + 1]

ProfileUrl == "https://www.instagram.com/user/"

\* mutant of MetaOrCount: the snapshot count wins when it is there
CountOrMeta(text, i, c) ==
    IF c # NoCount THEN CountStr(c) ELSE IF Len(text) > i THEN text[i + 1] ELSE "N/A"

\* text[i] if len(text) > i else str(snapshot count)      (i is 0-based)
MetaOrCount(text, i, c) == IF Len(text) > i THEN text[i + 1] ELSE CountStr(c)

\* user_data.get('profile_pic_url_hd', user_data.get('profile_pic_url', ''))
PicUrl(user) ==
    IF user.profile_pic_url_hd # KeyAbsent THEN user.profile_pic_url_hd
    ELSE IF user.profile_pic_url # KeyAbsent THEN user.profile_pic_url
    ELSE ""

\* description.get('name', '') if description else user_data.get('full_name', '')
ProfileName(pg, user) ==
    IF pg.jsonld = "dict" /\ pg.ld_keys # {}
    THEN (IF "name" \in pg.ld_keys THEN "LD Name" ELSE "")
    ELSE user.full_name

\* description.get('mainEntityofPage', {}).get('@id', '') if description else url
CanonicalUrl(pg) ==
    IF pg.jsonld = "dict" /\ pg.ld_keys # {}
    THEN (IF "mainEntityofPage" \in pg.ld_keys THEN "ld-url" ELSE "")
    ELSE ProfileUrl

\* the dict literal assigned to self.profile_data
Normalize(pg, user) ==
    [present |-> TRUE,
     username |-> user.username,
     profile_name |-> ProfileName(pg, user),
     url |-> CanonicalUrl(pg),
     followers |-> MetaOrCount(pg.tokens, 0, user.edge_followed_by),
     following |-> MetaOrCount(pg.tokens, 2, user.edge_follow),
     posts |-> MetaOrCount(pg.tokens, 4, user.media_count),
     profile_pic_url |-> PicUrl(user),
     is_private |-> user.is_private]

\* mutant of ParseError: a page without the snapshot script is not refused
ParseErrorWithoutScriptCheck(pg) ==
    IF ~pg.has_meta THEN "MissingSummary"
    ELSE IF pg.jsonld = "invalid" THEN "InvalidJsonLd"
    ELSE "none"

\* The try block of scrape_profile / _fetch_profile_data: the first failing
\* step raises, the except clause logs and the method returns None / False.
ParseError(pg) ==
    IF ~pg.has_meta THEN "MissingSummary"
    ELSE IF pg.jsonld = "invalid" THEN "InvalidJsonLd"
    ELSE IF pg.script = "absent" THEN "MissingSnapshot"
    ELSE IF pg.script = "malformed" THEN "InvalidSnapshot"
    ELSE IF pg.script = "nouser" THEN "MissingUserNode"
    ELSE "none"

ParseProfile(pg) ==
    IF ParseError(pg) = "none" THEN Normalize(pg, pg.user) ELSE EmptyProfile

(***************************************************************************)
(* Post extraction.                                                        *)
(***************************************************************************)
\* edges[:limit] for limit >= 0
Slice(edges, limit) == SubSeq(edges, 1, IF limit < Len(edges) THEN limit ELSE Len(edges))

\* .get('edge_media_to_caption', {}).get('edges', [{}])[0] raises IndexError
\* when the edges array is present and empty
NodeRaises(node) == node.cap_edges = "empty"

Caption(node) == IF node.cap_edges = "one" THEN node.text ELSE ""

PostRecord(node) ==
    [id |-> node.id, caption |-> Caption(node), is_video |-> node.is_video,
     display_url |-> node.display_url]

\* posts[post_id] = {...}: a dict keeps the place of a key it already has
RECURSIVE DictPut(_, _)
DictPut(d, rec) ==
    IF d = <<>> THEN <<rec>>
    ELSE IF Head(d).id = rec.id THEN <<rec>> \o Tail(d)
    ELSE <<Head(d)>> \o DictPut(Tail(d), rec)

RECURSIVE DictOf(_)
DictOf(nodes) ==
    IF nodes = <<>> THEN <<>>
    ELSE DictPut(DictOf(SubSeq(nodes, 1, Len(nodes) - 1)), PostRecord(nodes[Len(nodes)]))

NonePosts == [ok |-> FALSE, recs |-> <<>>]

\* mutant of IsPrivate: the flag is not looked at
NeverPrivate(pd) == FALSE

\* self.profile_data.get('Is Private', True) / .get('is_private', True)
IsPrivate(pd) == pd.is_private

\* lib scrape_posts(limit): None for no profile data, a private profile or
\* any exception inside the try block, else the dict of records
ScrapePosts(pd, user, limit) ==
    IF ~pd.present THEN NonePosts
    ELSE IF IsPrivate(pd) THEN NonePosts
    ELSE IF ~user.has_edges THEN NonePosts
    ELSE IF \E i \in 1..Len(Slice(user.edges, limit)) : NodeRaises(user.edges[i]) THEN NonePosts
    ELSE [ok |-> TRUE, recs |-> DictOf(Slice(user.edges, limit))]

Ext(rec) == IF rec.is_video THEN "mp4" ELSE "jpg"

(***************************************************************************)
(* Paths.  A directory is [root, k]: root "results" is                     *)
(* ./instagram_osint_results with k = 0 for {username} and k >= 1 for      *)
(* {username}_k; root "cwd" is ./{username} and root "output" the --output *)
(* directory of the lib program.                                           *)
(***************************************************************************)
Path(dir, sub, name, id) == [dir |-> dir, sub |-> sub, name |-> name, id |-> id]

DirPath(dir) == Path(dir, "", "", 0)
PostsDir(dir) == Path(dir, "posts", "", 0)
ProfileDataFile(dir) == Path(dir, "", "profile_data.json", 0)
PostsDataFile(dir) == Path(dir, "", "posts_data.json", 0)
ProfilePicFile(dir) == Path(dir, "", "profile_pic.jpg", 0)
PostsMetadataFile(dir) == Path(dir, "posts", "posts_metadata.json", 0)

\* mutant of MediaFile: the file name does not carry the post id
MediaFileOneName(dir, rec) == Path(dir, "posts", Ext(rec), 0)

\* os.path.join(posts_dir, f"{post_id}.{ext}")
MediaFile(dir, rec) == Path(dir, "posts", Ext(rec), rec.id)

ResultDir(k) == [root |-> "results", k |-> k]

\* mutant of FirstUnused: `if` for `while`, the next name is not looked at
FirstUnusedOneStep(files, k) ==
    IF DirPath(ResultDir(k)) \in files THEN k + 1 ELSE k

\* while os.path.exists(output_dir): try {username}_{counter}, counter += 1
RECURSIVE FirstUnused(_, _)
FirstUnused(files, k) ==
    IF DirPath(ResultDir(k)) \in files THEN FirstUnused(files, k + 1) ELSE k

create_output_directory(files) == ResultDir(FirstUnused(files, 0))

\* lib: output_dir or self.username
LibOutputDir(a) == IF a.output THEN [root |-> "output", k |-> 0] ELSE [root |-> "cwd", k |-> 0]

(***************************************************************************)
(* The HTTP layer: _rate_limit and _make_request.                          *)
(***************************************************************************)
max_retries == IF impl = "cli" THEN CliMaxRetries ELSE args.max_retries

Target(kind, id) == [kind |-> kind, id |-> id]

\* a clock difference, not told apart at or beyond TimeHorizon
Sat(t) == IF t < TimeHorizon THEN t ELSE TimeHorizon

\* mutant of RateLimit: sleeps the elapsed time instead of the remainder
RateLimitSleepsElapsed(el) ==
    IF el < min_request_interval THEN el ELSE 0

\* _rate_limit: the time it sleeps when `el` has elapsed since the last request
RateLimit(el) ==
    IF el < min_request_interval THEN min_request_interval - el ELSE 0

\* mutant of Backoff: the exponent is the number of the retry to come
BackoffOfNextRetry(rc) == 2 ^ (rc + 1)

\* time.sleep(2 ** retry_count)
Backoff(rc) == 2 ^ rc

\* mutant of CanRetry: one retry too many
CanRetryInclusive(rc, max) == rc <= max

\* if retry_count < self.max_retries  /  if retry_count < 3
CanRetry(rc, max) == rc < max

\* retry_count of the frame that makes the next attempt: a call starts at 0
Frame == IF status = "retry" THEN retry_count ELSE 0

\* what the frame does with the attempt's result: return the response,
\* sleep and recurse, or return None
Outcome(ok) ==
    IF ok THEN "ok" ELSE IF CanRetry(Frame, max_retries) THEN "retry" ELSE "none"

\* One frame of _make_request(url): the pacing check, one GET that takes
\* dur seconds and succeeds (ok) or raises a RequestException, and then the
\* return or the backoff sleep before the recursive call.  `after` is the
\* time the caller sleeps once the call has returned.
MakeRequest(url, ok, dur, after) ==
    LET first == status # "retry"
        wait == RateLimit(elapsed)
        out == Outcome(ok)
        slept == IF first THEN <<>> ELSE backoffs
    IN  /\ gap' = IF requests = 0 THEN gap ELSE Sat(elapsed + wait)
        /\ requests' = IF requests < 2 THEN requests + 1 ELSE requests
        /\ req_url' = url
        /\ attempts' = IF first THEN 1 ELSE attempts + 1
        /\ status' = out
        /\ retry_count' = IF out = "retry" THEN Frame + 1 ELSE Frame
        /\ backoffs' = IF out = "retry" THEN Append(slept, Backoff(Frame)) ELSE slept
        /\ elapsed' = Sat(dur + (IF out = "retry" THEN Backoff(Frame) ELSE after))

\* mutant of ResponseTruthy: the file is written whatever the call returned
ResponseUnchecked(out) == out # "retry"

\* `if response:` on the value of _make_request: a response, not None
ResponseTruthy(out) == out = "ok"

Latencies == 0..MaxLatency

\* time.sleep(random.uniform(1, 3)), in whole seconds
PostDelays == MinPostDelay..MaxPostDelay

\* with open(path, 'w' / 'wb') as f: f.write(...) / json.dump(..., f): it
\* completes, or open() raises (no file is made), or the write or the flush
\* at close raises after open() has created the file
WriteOutcomes == {"ok", "open_raises", "write_raises"}

\* mutant of Written: no write leaves a file
WrittenNowhere(files, path, w) == files

\* the disk after the with block: the file exists, empty when the write
\* raised, unless open() itself raised
Written(files, path, w) == IF w = "open_raises" THEN files ELSE files \cup {path}

Failed(op, kind, id) == [op |-> op, kind |-> kind, id |-> id]

Finish(code) == pc' = "done" /\ exit_code' = code

(***************************************************************************)
(* src/main.py                                                             *)
(***************************************************************************)
\* __init__ up to self.output_dir = self._create_output_directory()
CliCreateOutputDirectory ==
    /\ impl = "cli" /\ pc = "start"
    /\ output_dir' = create_output_directory(fs)
    /\ fs' = fs \cup {DirPath(create_output_directory(fs))}
    /\ allocated' = Append(allocated, create_output_directory(fs))
    /\ pc' = "fetch"
    /\ UNCHANGED <<racers, impl, args, page, profile_data, profile_meta, posts, idx,
                   media_requests, failures, exit_code, runs>>
    /\ UNCHANGED reqVars

\* scan_profile: one attempt of the profile request of _fetch_profile_data
\* and, once the request has returned, the parse; sys.exit(1) on failure
CliFetchProfileData ==
    /\ impl = "cli" /\ pc = "fetch"
    /\ \E ok \in BOOLEAN, dur \in Latencies :
          /\ MakeRequest(Target("profile", 0), ok, dur, 0)
          /\ IF Outcome(ok) = "retry"
             THEN UNCHANGED <<pc, exit_code, profile_data, profile_meta>>
             ELSE IF Outcome(ok) = "none"
             THEN Finish(1) /\ UNCHANGED <<profile_data, profile_meta>>
             ELSE /\ profile_data' = ParseProfile(page)
                  /\ profile_meta' = IF ParseError(page) = "none" THEN page.user ELSE profile_meta
                  /\ IF ParseError(page) = "none"
                     THEN pc' = "save" /\ UNCHANGED exit_code
                     ELSE Finish(1)
    /\ UNCHANGED <<racers, impl, args, page, allocated, fs, output_dir, posts, idx, media_requests,
                   failures, runs>>

\* _save_data, then the branch on download_photos (with _print_results)
CliSaveData ==
    /\ impl = "cli" /\ pc = "save"
    /\ \E w \in WriteOutcomes :
          /\ fs' = Written(fs, ProfileDataFile(output_dir), w)
          /\ failures' = IF w = "ok" THEN failures
                         ELSE failures \cup {Failed("write", "profile_data", 0)}
    /\ IF args.download THEN pc' = "content" /\ UNCHANGED exit_code ELSE Finish(0)
    /\ UNCHANGED <<racers, impl, args, page, allocated, output_dir, profile_data, profile_meta, posts,
                   idx, media_requests, runs>>
    /\ UNCHANGED reqVars

\* mutant of CliContentNext: the picture is fetched before the private check
CliContentNextPictureFirst(pd) ==
    IF pd.profile_pic_url # "" THEN "pic"
    ELSE IF IsPrivate(pd) THEN "done"
    ELSE "posts"

\* _download_content: where it goes first: nowhere for a private profile,
\* else to the profile picture request, or on to the posts when
\* _download_profile_picture finds no URL
CliContentNext(pd) ==
    IF IsPrivate(pd) THEN "done"
    ELSE IF pd.profile_pic_url = "" THEN "posts"
    ELSE "pic"

\* _download_content: the private check, and _download_profile_picture up to
\* its request
CliDownloadContent ==
    /\ impl = "cli" /\ pc = "content"
    /\ IF CliContentNext(profile_data) = "done"
       THEN Finish(0)
       ELSE pc' = CliContentNext(profile_data) /\ UNCHANGED exit_code
    /\ UNCHANGED <<racers, impl, args, page, allocated, fs, output_dir, profile_data, profile_meta,
                   posts, idx, media_requests, failures, runs>>
    /\ UNCHANGED reqVars

\* _download_profile_picture: one attempt of its request, then the write
CliDownloadProfilePicture ==
    /\ impl = "cli" /\ pc = "pic"
    /\ \E ok \in BOOLEAN, dur \in Latencies, w \in WriteOutcomes :
          /\ MakeRequest(Target("pic", 0), ok, dur, 0)
          /\ fs' = IF ResponseTruthy(Outcome(ok))
                   THEN Written(fs, ProfilePicFile(output_dir), w) ELSE fs
          /\ failures' =
                IF Outcome(ok) = "none" THEN failures \cup {Failed("request", "pic", 0)}
                ELSE IF Outcome(ok) = "ok" /\ w # "ok"
                THEN failures \cup {Failed("write", "pic", 0)}
                ELSE failures
          /\ pc' = IF Outcome(ok) = "retry" THEN "pic" ELSE "posts"
    /\ media_requests' = media_requests \cup {Target("pic", 0)}
    /\ UNCHANGED <<racers, impl, args, page, allocated, output_dir, profile_data, profile_meta, posts,
                   idx, exit_code, runs>>

\* the edges _download_posts(limit=12) walks
CliEdges == Slice(profile_meta.edges, DefaultLimit)

\* _download_posts up to its loop: a user node without the edges raises
\* KeyError, which the outer except logs
CliDownloadPosts ==
    /\ impl = "cli" /\ pc = "posts"
    /\ IF ~profile_meta.has_edges
       THEN Finish(0) /\ UNCHANGED <<fs, posts, idx>>
       ELSE /\ fs' = fs \cup {PostsDir(output_dir)}
            /\ posts' = [ok |-> TRUE, recs |-> <<>>]
            /\ idx' = 1
            /\ pc' = "post_iter"
            /\ UNCHANGED exit_code
    /\ UNCHANGED <<racers, impl, args, page, allocated, output_dir, profile_data, profile_meta,
                   media_requests, failures, runs>>
    /\ UNCHANGED reqVars

\* one iteration of the loop up to the request: the record is built and
\* appended; a post without display_url goes straight to the delay
CliPostIteration ==
    /\ impl = "cli" /\ pc = "post_iter" /\ idx <= Len(CliEdges)
    /\ IF NodeRaises(CliEdges[idx])
       THEN Finish(0) /\ UNCHANGED <<posts, idx, elapsed>>
       ELSE /\ posts' = [posts EXCEPT !.recs = Append(@, PostRecord(CliEdges[idx]))]
            /\ UNCHANGED exit_code
            /\ IF CliEdges[idx].display_url # ""
               THEN pc' = "post_req" /\ UNCHANGED <<idx, elapsed>>
               ELSE /\ \E d \in PostDelays : elapsed' = Sat(elapsed + d)
                    /\ idx' = idx + 1
                    /\ pc' = "post_iter"
    /\ UNCHANGED <<racers, impl, args, page, allocated, fs, output_dir, profile_data, profile_meta,
                   media_requests, failures, runs>>
    /\ UNCHANGED <<gap, requests, status, retry_count, attempts, backoffs, req_url>>

\* one attempt of the post's media request, then the write and the delay
CliPostRequest ==
    /\ impl = "cli" /\ pc = "post_req"
    /\ LET rec == posts.recs[Len(posts.recs)]
       IN  /\ \E ok \in BOOLEAN, dur \in Latencies, w \in WriteOutcomes, d \in PostDelays :
                 /\ MakeRequest(Target("post", rec.id), ok, dur, d)
                 /\ fs' = IF ResponseTruthy(Outcome(ok))
                          THEN Written(fs, MediaFile(output_dir, rec), w) ELSE fs
                 /\ failures' =
                       IF Outcome(ok) = "none"
                       THEN failures \cup {Failed("request", "post", rec.id)}
                       ELSE IF Outcome(ok) = "ok" /\ w # "ok"
                       THEN failures \cup {Failed("write", "post", rec.id)}
                       ELSE failures
                 /\ pc' = IF Outcome(ok) = "retry" THEN "post_req" ELSE "post_iter"
                 /\ idx' = IF Outcome(ok) = "retry" THEN idx ELSE idx + 1
           /\ media_requests' = media_requests \cup {Target("post", rec.id)}
    /\ UNCHANGED <<racers, impl, args, page, allocated, output_dir, profile_data, profile_meta, posts,
                   exit_code, runs>>

\* after the loop: posts_metadata.json, then _print_results
CliPostsMetadata ==
    /\ impl = "cli" /\ pc = "post_iter" /\ idx > Len(CliEdges)
    /\ \E w \in WriteOutcomes :
          /\ fs' = Written(fs, PostsMetadataFile(output_dir), w)
          /\ failures' = IF w = "ok" THEN failures
                         ELSE failures \cup {Failed("write", "posts_metadata", 0)}
    /\ Finish(0)
    /\ UNCHANGED <<racers, impl, args, page, allocated, output_dir, profile_data, profile_meta, posts,
                   idx, media_requests, runs>>
    /\ UNCHANGED reqVars

(***************************************************************************)
(* src/InstagramOSINT.py                                                   *)
(***************************************************************************)
\* the constructor's scrape_profile(): one attempt of the profile request
\* and, once it has returned, the parse; then main() up to its next call
LibScrapeProfile ==
    /\ impl = "lib" /\ pc = "fetch"
    /\ \E ok \in BOOLEAN, dur \in Latencies :
          /\ MakeRequest(Target("profile", 0), ok, dur, 0)
          /\ IF Outcome(ok) = "retry"
             THEN UNCHANGED <<pc, exit_code, profile_data, profile_meta>>
             ELSE IF Outcome(ok) = "none"
             THEN Finish(1) /\ UNCHANGED <<profile_data, profile_meta>>
             ELSE /\ profile_data' = ParseProfile(page)
                  /\ profile_meta' = IF ParseError(page) = "none" THEN page.user ELSE profile_meta
                  /\ IF ParseError(page) # "none" THEN Finish(1)
                     ELSE IF args.download THEN pc' = "media" /\ UNCHANGED exit_code
                     ELSE IF args.output THEN pc' = "save" /\ UNCHANGED exit_code
                     ELSE Finish(0)
    /\ UNCHANGED <<racers, impl, args, page, allocated, fs, output_dir, posts, idx, media_requests,
                   failures, runs>>

\* download_media up to the profile picture request
LibDownloadMedia ==
    /\ impl = "lib" /\ pc = "media"
    /\ output_dir' = LibOutputDir(args)
    /\ fs' = fs \cup {DirPath(LibOutputDir(args))}
    /\ pc' = IF profile_data.profile_pic_url = "" THEN "posts" ELSE "pic"
    /\ UNCHANGED <<racers, impl, args, page, allocated, profile_data, profile_meta, posts, idx,
                   media_requests, failures, exit_code, runs>>
    /\ UNCHANGED reqVars

\* download_media: one attempt of the profile picture request, then the write
LibDownloadProfilePicture ==
    /\ impl = "lib" /\ pc = "pic"
    /\ \E ok \in BOOLEAN, dur \in Latencies, w \in WriteOutcomes :
          /\ MakeRequest(Target("pic", 0), ok, dur, 0)
          /\ fs' = IF ResponseTruthy(Outcome(ok))
                   THEN Written(fs, ProfilePicFile(output_dir), w) ELSE fs
          /\ failures' =
                IF Outcome(ok) = "none" THEN failures \cup {Failed("request", "pic", 0)}
                ELSE IF Outcome(ok) = "ok" /\ w # "ok"
                THEN failures \cup {Failed("write", "pic", 0)}
                ELSE failures
          /\ pc' = IF Outcome(ok) = "retry" THEN "pic" ELSE "posts"
    /\ media_requests' = media_requests \cup {Target("pic", 0)}
    /\ UNCHANGED <<racers, impl, args, page, allocated, output_dir, profile_data, profile_meta, posts,
                   idx, exit_code, runs>>

\* for post_id, post_data in posts.items(): the first post at or after i
\* that has a Display URL (the others are skipped by `continue`)
RECURSIVE NextWithUrl(_, _)
NextWithUrl(recs, i) ==
    IF i > Len(recs) THEN i
    ELSE IF recs[i].display_url # "" THEN i
    ELSE NextWithUrl(recs, i + 1)

\* download_media from the private check to the first post request:
\* scrape_posts, the posts directory and posts_metadata.json, whose write is
\* outside any try block
LibDownloadPosts ==
    /\ impl = "lib" /\ pc = "posts"
    /\ LET got == ScrapePosts(profile_data, profile_meta, args.limit)
       IN  IF IsPrivate(profile_data)
           THEN Finish(0) /\ UNCHANGED <<fs, posts, idx, failures>>
           ELSE /\ posts' = got
                /\ IF ~got.ok \/ got.recs = <<>>
                   THEN Finish(0) /\ UNCHANGED <<fs, idx, failures>>
                   ELSE \E w \in WriteOutcomes :
                          /\ fs' = Written(fs \cup {PostsDir(output_dir)},
                                           PostsMetadataFile(output_dir), w)
                          /\ failures' = IF w = "ok" THEN failures
                                ELSE failures \cup {Failed("write", "posts_metadata", 0)}
                          /\ idx' = NextWithUrl(got.recs, 1)
                          /\ IF w # "ok" THEN Finish(1)
                             ELSE IF NextWithUrl(got.recs, 1) > Len(got.recs) THEN Finish(0)
                             ELSE pc' = "post_req" /\ UNCHANGED exit_code
    /\ UNCHANGED <<racers, impl, args, page, allocated, output_dir, profile_data, profile_meta,
                   media_requests, runs>>
    /\ UNCHANGED reqVars

\* one attempt of a post's media request, then the write and the step to
\* the next post that has a Display URL
LibPostRequest ==
    /\ impl = "lib" /\ pc = "post_req"
    /\ LET rec == posts.recs[idx]
           nxt == NextWithUrl(posts.recs, idx + 1)
       IN  /\ \E ok \in BOOLEAN, dur \in Latencies, w \in WriteOutcomes :
                 /\ MakeRequest(Target("post", rec.id), ok, dur, 0)
                 /\ fs' = IF ResponseTruthy(Outcome(ok))
                          THEN Written(fs, MediaFile(output_dir, rec), w) ELSE fs
                 /\ failures' =
                       IF Outcome(ok) = "none"
                       THEN failures \cup {Failed("request", "post", rec.id)}
                       ELSE IF Outcome(ok) = "ok" /\ w # "ok"
                       THEN failures \cup {Failed("write", "post", rec.id)}
                       ELSE failures
                 /\ IF Outcome(ok) = "retry" THEN UNCHANGED <<pc, idx, exit_code>>
                    ELSE /\ idx' = nxt
                         /\ IF nxt > Len(posts.recs) THEN Finish(0)
                            ELSE pc' = "post_req" /\ UNCHANGED exit_code
           /\ media_requests' = media_requests \cup {Target("post", rec.id)}
    /\ UNCHANGED <<racers, impl, args, page, allocated, output_dir, profile_data, profile_meta, posts, runs>>

\* save_data (main calls it for --output without --download): the first
\* write that raises ends the try block
LibSaveData ==
    /\ impl = "lib" /\ pc = "save"
    /\ output_dir' = LibOutputDir(args)
    /\ LET dir == LibOutputDir(args)
           got == ScrapePosts(profile_data, profile_meta, DefaultLimit)
           more == ~IsPrivate(profile_data) /\ got.ok /\ got.recs # <<>>
       IN  \E w1 \in WriteOutcomes, w2 \in WriteOutcomes :
             /\ fs' = IF w1 # "ok"
                      THEN Written(fs \cup {DirPath(dir)}, ProfileDataFile(dir), w1)
                      ELSE IF more
                      THEN Written(fs \cup {DirPath(dir), ProfileDataFile(dir)},
                                   PostsDataFile(dir), w2)
                      ELSE fs \cup {DirPath(dir), ProfileDataFile(dir)}
             /\ failures' =
                   IF w1 # "ok" THEN failures \cup {Failed("write", "profile_data", 0)}
                   ELSE IF more /\ w2 # "ok" THEN failures \cup {Failed("write", "posts_data", 0)}
                   ELSE failures
             /\ posts' = IF w1 = "ok" /\ ~IsPrivate(profile_data) THEN got ELSE posts
    /\ Finish(0)
    /\ UNCHANGED <<racers, impl, args, page, allocated, profile_data, profile_meta, idx,
                   media_requests, runs>>
    /\ UNCHANGED reqVars

(***************************************************************************)
(* A second start of src/main.py in the same working directory (the        *)
(* earlier run has ended or was interrupted): a new process, a new         *)
(* instance, the same disk and clock.                                      *)
(***************************************************************************)
NoDir == [root |-> "none", k |-> 0]

Relaunch ==
    /\ impl = "cli" /\ pc # "start" /\ runs < MaxRuns
    /\ runs' = runs + 1
    /\ pc' = "start"
    /\ output_dir' = NoDir
    /\ profile_data' = EmptyProfile
    /\ profile_meta' = NoUser
    /\ posts' = NonePosts
    /\ idx' = 0
    /\ media_requests' = {}
    /\ failures' = {}
    /\ exit_code' = -1
    /\ elapsed' = TimeHorizon
    /\ gap' = TimeHorizon
    /\ requests' = 0
    /\ status' = "idle"
    /\ retry_count' = 0
    /\ attempts' = 0
    /\ backoffs' = <<>>
    /\ req_url' = Target("none", 0)
    /\ UNCHANGED <<racers, impl, args, page, fs, allocated>>

(***************************************************************************)
(* Inputs.                                                                 *)
(***************************************************************************)
Args(download, output, limit, maxr) ==
    [download |-> download, output |-> output, limit |-> limit, max_retries |-> maxr]

\* src/main.py takes no --limit, --output or max_retries
CliArgs(download) == Args(download, FALSE, DefaultLimit, CliMaxRetries)

Config(i, a, pg, files) == [impl |-> i, args |-> a, page |-> pg, fs |-> files]

MetaTexts ==
    { <<>>, <<"10", "Followers,">>, <<"1.5k", "Followers,", "20", "Following,">>,
      <<"10", "Followers,", "20", "Following,", "30", "Posts">>,
      <<"1.5k", "Followers,", "7", "Following,", "1,204", "Posts">> }

Counts == {NoCount, 3, 7}

\* the post nodes: ordinary image with caption, video without the caption
\* key, image with an empty caption array, image without display_url
NodeKinds ==
    { <<"one", FALSE, "u">>, <<"absent", TRUE, "u">>, <<"empty", FALSE, "u">>,
      <<"one", FALSE, "">> }

NodeOf(id, kind) == PostNode(id, kind[1], kind[2], kind[3])

\* the nodes every download of which can succeed: image with caption, video
\* without the caption key
PlainKinds == { <<"one", FALSE, "u">>, <<"absent", TRUE, "u">> }

\* edge lists whose ids are distinct (the id is the place in the list); the
\* lists longer than MaxMixed hold plain nodes only
EdgeListsOfLen(n) ==
    { [i \in 1..n |-> NodeOf(i, f[i])] :
        f \in [1..n -> IF n <= MaxMixed THEN NodeKinds ELSE PlainKinds] }

\* edge lists in which a later edge repeats the first edge's id
DupEdgeLists ==
    { <<NodeOf(1, k1), NodeOf(1, k2)>> :
        k1 \in {<<"one", FALSE, "u">>}, k2 \in {<<"one", FALSE, "u">>, <<"absent", TRUE, "u">>} }

EdgeLists(max) == UNION { EdgeListsOfLen(n) : n \in 0..max } \cup DupEdgeLists

PlainEdges == <<NodeOf(1, <<"one", FALSE, "u">>), NodeOf(2, <<"absent", TRUE, "u">>)>>

GoodUser(private, edges) == UserNode(private, "hd", "sd", 3, 7, 3, TRUE, edges)

GoodTokens == <<"10", "Followers,", "20", "Following,", "30", "Posts">>

GoodPage(user) == Page(TRUE, GoodTokens, "absent", {}, "ok", user)

ExistingDirs == { { DirPath(ResultDir(k)) : k \in S } : S \in SUBSET (0..MaxExisting) }

\* the HTTP layer and the whole pipeline on an ordinary page
FetchConfigs ==
    { Config("lib", Args(TRUE, FALSE, 2, m), GoodPage(GoodUser(FALSE, PlainEdges)), {}) :
        m \in 0..MaxRetriesArg }
    \cup { Config("cli", CliArgs(TRUE), GoodPage(GoodUser(FALSE, PlainEdges)), {}) }

\* output-directory allocation over the directories present at start
AllocConfigs ==
    { Config("cli", CliArgs(FALSE), GoodPage(GoodUser(p, <<>>)), files) :
        p \in BOOLEAN, files \in ExistingDirs }

\* the page parse and the normalisation
ParsePages ==
    { Page(m, t, ld, keys, sc, UserNode(p, hd, "sd", c, c, c, TRUE, <<>>)) :
        m \in BOOLEAN, t \in MetaTexts, ld \in {"absent"}, keys \in {{}},
        sc \in {"absent", "malformed", "nouser", "ok"}, p \in BOOLEAN,
        hd \in {"hd"}, c \in Counts }

\* the JSON-LD block: absent, not JSON, or a mapping with some of its keys
\* (mainEntityOfPage is the schema.org key, mainEntityofPage the key read)
LdKeys == {"name", "mainEntityofPage", "mainEntityOfPage"}

LdPages ==
    { Page(TRUE, GoodTokens, ld[1], ld[2], sc, GoodUser(FALSE, <<>>)) :
        ld \in {<<"invalid", {}>>} \cup { <<"dict", ks>> : ks \in SUBSET LdKeys },
        sc \in {"absent", "nouser", "ok"} }

ParseConfigs ==
    { Config(i, IF i = "cli" THEN CliArgs(FALSE) ELSE Args(FALSE, o, 1, 0), pg, {}) :
        i \in {"lib", "cli"}, o \in BOOLEAN, pg \in ParsePages \cup LdPages }

\* private and public profiles through the download step
UserShapes ==
    { UserNode(p, hd, sd, 3, 7, 1, he, IF he THEN <<NodeOf(1, <<"one", FALSE, "u">>)>> ELSE <<>>) :
        p \in BOOLEAN, hd \in {KeyAbsent, "", "hd"}, sd \in {KeyAbsent, "sd"},
        he \in BOOLEAN }

GateConfigs ==
    { Config(i, IF i = "cli" THEN CliArgs(d) ELSE Args(d, o, 1, 0), GoodPage(u), {}) :
        i \in {"lib", "cli"}, d \in BOOLEAN, o \in BOOLEAN, u \in UserShapes }

\* post extraction and the media downloads over the edge lists
PostConfigs ==
    { Config("lib", Args(TRUE, FALSE, l, 0), GoodPage(GoodUser(FALSE, e)), {}) :
        l \in 0..MaxLimit, e \in EdgeLists(MaxEdges) }
    \cup { Config("cli", CliArgs(TRUE), GoodPage(GoodUser(FALSE, e)), {}) :
             e \in EdgeLists(MaxCliEdges) }

Configs == FetchConfigs \cup AllocConfigs \cup ParseConfigs \cup GateConfigs \cup PostConfigs

InitWith(c) ==
    /\ impl = c.impl /\ args = c.args /\ page = c.page /\ fs = c.fs
    /\ elapsed = TimeHorizon
    /\ gap = TimeHorizon
    /\ requests = 0
    /\ status = "idle"
    /\ retry_count = 0
    /\ attempts = 0
    /\ backoffs = <<>>
    /\ req_url = Target("none", 0)
    /\ pc = IF c.impl = "cli" THEN "start" ELSE "fetch"
    /\ output_dir = NoDir
    /\ allocated = <<>>
    /\ profile_data = EmptyProfile
    /\ profile_meta = NoUser
    /\ posts = NonePosts
    /\ idx = 0
    /\ media_requests = {}
    /\ failures = {}
    /\ exit_code = -1
    /\ runs = 1

\* one process at a time
NoRacers == [p \in 1..MaxRacers |-> [pc |-> "idle", k |-> 0]]

Init == \E c \in Configs : InitWith(c) /\ racers = NoRacers

Next ==
    \/ CliCreateOutputDirectory
    \/ CliFetchProfileData
    \/ CliSaveData
    \/ CliDownloadContent
    \/ CliDownloadProfilePicture
    \/ CliDownloadPosts
    \/ CliPostIteration
    \/ CliPostRequest
    \/ CliPostsMetadata
    \/ LibScrapeProfile
    \/ LibDownloadMedia
    \/ LibDownloadProfilePicture
    \/ LibDownloadPosts
    \/ LibPostRequest
    \/ LibSaveData

Spec == Init /\ [][Next]_vars

\* repeated starts of src/main.py in one working directory
InitAlloc == \E c \in AllocConfigs : InitWith(c) /\ racers = NoRacers

NextAlloc == CliCreateOutputDirectory \/ Relaunch

SpecAlloc == InitAlloc /\ [][NextAlloc]_vars

(***************************************************************************)
(* Processes of src/main.py started at the same time for the same username *)
(* in the same working directory.  Each runs _create_output_directory on   *)
(* the shared disk; racers[p].k is the suffix of the candidate path of     *)
(* process p (0 for {username}).  The steps of a process that touch the    *)
(* disk are one os.path.exists call and the mkdir of os.makedirs, each     *)
(* atomic; the processes interleave between them in any way.               *)
(***************************************************************************)
\* mutant of MakedirsRaises: os.makedirs(output_dir, exist_ok=True)
MakedirsExistOk(files, path) == FALSE

\* os.makedirs(output_dir): FileExistsError when the path exists
MakedirsRaises(files, path) == path \in files

\* while os.path.exists(output_dir): one evaluation of the condition, and
\* the loop body when it holds
RaceExists(p) ==
    /\ racers[p].pc = "exists"
    /\ racers' = IF DirPath(ResultDir(racers[p].k)) \in fs
                 THEN [racers EXCEPT ![p].k = @ + 1]
                 ELSE [racers EXCEPT ![p].pc = "makedirs"]
    /\ UNCHANGED <<impl, args, page, fs, pc, output_dir, allocated, profile_data,
                   profile_meta, posts, idx, media_requests, failures, exit_code, runs>>
    /\ UNCHANGED reqVars

\* os.makedirs(output_dir) and return output_dir; the FileExistsError leaves
\* the constructor and main() ends the process with sys.exit(1)
RaceMakedirs(p) ==
    /\ racers[p].pc = "makedirs"
    /\ IF MakedirsRaises(fs, DirPath(ResultDir(racers[p].k)))
       THEN racers' = [racers EXCEPT ![p].pc = "error"] /\ UNCHANGED fs
       ELSE /\ racers' = [racers EXCEPT ![p].pc = "returned"]
            /\ fs' = fs \cup {DirPath(ResultDir(racers[p].k))}
    /\ UNCHANGED <<impl, args, page, pc, output_dir, allocated, profile_data,
                   profile_meta, posts, idx, media_requests, failures, exit_code, runs>>
    /\ UNCHANGED reqVars

InitRace ==
    /\ \E c \in AllocConfigs : InitWith(c)
    /\ racers = [p \in 1..MaxRacers |-> [pc |-> "exists", k |-> 0]]

NextRace == \E p \in 1..MaxRacers : RaceExists(p) \/ RaceMakedirs(p)

SpecRace == InitRace /\ [][NextRace]_vars

(***************************************************************************)
(* Properties of the HTTP layer.                                           *)
(***************************************************************************)
\* C1 as stated: a call that returns a response after N < max_retries
\* transient failures made exactly N+1 attempts and slept N times, and the
\* sleep before the k-th retry (k = 1..N) was 2^k.
C1_BackoffTwoToTheK ==
    (status = "ok" /\ retry_count < max_retries) =>
        /\ attempts = retry_count + 1
        /\ Len(backoffs) = retry_count
        /\ \A k \in 1..Len(backoffs) : backoffs[k] = 2 ^ k

\* C1 amended: as above, but the sleep before the k-th retry (k = 1..N) is
\* 2^(k-1): 1, 2, 4, ..., that is 2^retry_count of the attempt that failed.
C1_BackoffSchedule ==
    (status = "ok" /\ retry_count < max_retries) =>
        /\ attempts = retry_count + 1
        /\ Len(backoffs) = retry_count
        /\ \A k \in 1..Len(backoffs) : backoffs[k] = 2 ^ (k - 1)

\* a call that succeeded on its third attempt, after sleeping 1 and then 2
C1_Witness ==
    /\ status = "ok" /\ retry_count = 2 /\ max_retries = 3
    /\ attempts = 3 /\ backoffs = <<1, 2>>

\* C2: a call never makes more than max_retries+1 attempts; it returns None
\* exactly after max_retries+1 failed attempts, and while another attempt
\* is still to come at most max_retries have been made.
C2_AttemptsBounded ==
    /\ attempts <= max_retries + 1
    /\ status = "none" => (attempts = max_retries + 1 /\ retry_count = max_retries)
    /\ status = "retry" => attempts <= max_retries

\* a media request of src/main.py given up after 4 attempts
C2_Witness ==
    /\ impl = "cli" /\ status = "none" /\ attempts = CliMaxRetries + 1
    /\ req_url.kind = "post"

\* C3: any two consecutively issued requests of the instance are at least
\* min_request_interval apart, whichever calls they belong to.
C3_Pacing == requests = 2 => gap >= min_request_interval

\* a retry of a post download issued exactly min_request_interval after the
\* attempt before it
C3_Witness ==
    /\ requests = 2 /\ gap = min_request_interval
    /\ req_url.kind = "post" /\ attempts = 2

(***************************************************************************)
(* Properties of the profile parse and the normalisation.                  *)
(***************************************************************************)
ProfileRequestReturned == req_url.kind = "profile" /\ status = "ok"

\* C4: a page with the og:description tag but without a script holding
\* window._sharedData never yields a ProfileRecord: profile_data stays empty
\* and, once the page has been fetched, the run has ended in failure.
C4_MissingSnapshotFails ==
    (page.has_meta /\ page.script = "absent") =>
        /\ profile_data = EmptyProfile
        /\ ProfileRequestReturned => (pc = "done" /\ exit_code = 1)

\* such a page has been fetched and refused
C4_Witness ==
    /\ page.has_meta /\ page.script = "absent" /\ page.jsonld = "absent"
    /\ ProfileRequestReturned /\ pc = "done" /\ exit_code = 1
    /\ profile_data = EmptyProfile

\* the fixed three-clause phrase [N1, "Followers,", N2, "Following,", N3, "Posts"]
ThreeClauses(text) ==
    /\ Len(text) = 6
    /\ text[2] = "Followers," /\ text[4] = "Following," /\ text[6] = "Posts"

\* C5: for meta tokens of the three-clause form the record's followers,
\* following and posts are N1, N2 and N3, whatever the snapshot counts are.
C5_CountsFromMeta ==
    (profile_data.present /\ ThreeClauses(page.tokens)) =>
        /\ profile_data.followers = page.tokens[1]
        /\ profile_data.following = page.tokens[3]
        /\ profile_data.posts = page.tokens[5]

\* a record made from the phrase while the snapshot holds other counts
C5_Witness ==
    /\ profile_data.present /\ ThreeClauses(page.tokens)
    /\ profile_data.followers = "1.5k" /\ profile_data.posts = "1,204"
    /\ page.user.edge_followed_by = 7 /\ page.user.media_count = 7

(***************************************************************************)
(* Properties of the private gate.                                         *)
(***************************************************************************)
PrivateRecord == profile_data.present /\ profile_data.is_private

\* anything under posts/, or the posts_data.json of save_data
PostsOutput == { f \in fs : f.sub = "posts" \/ f.name = "posts_data.json" }

\* C6: for a private record scrape_posts returns no posts, the post loop of
\* _download_posts is never entered, no post is requested and no posts
\* metadata or posts/ file is written.
C6_PrivateNoPosts ==
    PrivateRecord =>
        /\ \A l \in 0..MaxLimit : ScrapePosts(profile_data, profile_meta, l) = NonePosts
        /\ posts = NonePosts
        /\ pc \notin {"post_iter", "post_req"}
        /\ impl = "cli" => pc # "posts"
        /\ \A t \in media_requests : t.kind # "post"
        /\ PostsOutput = {}

\* a private profile with post edges, run with --download to the end
C6_Witness ==
    /\ PrivateRecord /\ args.download /\ pc = "done" /\ exit_code = 0
    /\ profile_meta.has_edges /\ profile_meta.edges # <<>>

(***************************************************************************)
(* Properties of the output-directory allocation (checked under SpecAlloc, *)
(* where src/main.py is started again in the same working directory).      *)
(***************************************************************************)
\* C7: every call of _create_output_directory returns a path that did not
\* exist before the call and exists after it, the only path the call adds;
\* it is {base}/{username} if unused, else {base}/{username}_k for the
\* smallest unused k >= 1; it differs from every path returned before.
C7_FreshSmallestPath ==
    [][ (pc = "start" /\ pc' = "fetch") =>
          /\ output_dir'.root = "results"
          /\ DirPath(output_dir') \notin fs
          /\ fs' = fs \cup {DirPath(output_dir')}
          /\ \A j \in 0..(output_dir'.k - 1) : DirPath(ResultDir(j)) \in fs
          /\ \A i \in 1..Len(allocated) : allocated[i] # output_dir'
          /\ allocated' = Append(allocated, output_dir') ]_vars

\* two starts in an empty base directory: {username}, then {username}_1
C7_Witness ==
    /\ runs = 2 /\ pc = "fetch"
    /\ allocated = <<ResultDir(0), ResultDir(1)>>
    /\ fs = {DirPath(ResultDir(0)), DirPath(ResultDir(1))}

(***************************************************************************)
(* Properties of post extraction and the media downloads.                  *)
(***************************************************************************)
Min(a, b) == IF a < b THEN a ELSE b

PublicRecord == profile_data.present /\ ~profile_data.is_private

\* the post extraction of a --download run is over: scrape_posts has
\* returned (lib), _download_posts has ended (cli)
ExtractionDone ==
    /\ args.download /\ PublicRecord
    /\ \/ impl = "lib" /\ pc \in {"post_req", "done"}
       \/ impl = "cli" /\ pc = "done"

\* one record per edge of the first min(limit, n) edges, in source order
FirstEdgesRecords(edges, limit) ==
    [i \in 1..Min(limit, Len(edges)) |-> PostRecord(edges[i])]

\* C8 as stated: for a public profile, every limit >= 0 and every list of
\* post edges, extraction yields exactly the records of the first
\* min(limit, n) edges, in source order.
C8_FirstLimitEdges ==
    (ExtractionDone /\ profile_meta.has_edges) =>
        /\ posts.ok
        /\ posts.recs = FirstEdgesRecords(profile_meta.edges, args.limit)

DownloadDone == args.download /\ PublicRecord /\ pc = "done"

AllHaveUrl == \A i \in 1..Len(posts.recs) : posts.recs[i].display_url # ""

DistinctIds ==
    \A i, j \in 1..Len(posts.recs) : posts.recs[i].id = posts.recs[j].id => i = j

\* the files under {outputDir}/posts/
PostsFiles == { f \in fs : f.dir = output_dir /\ f.sub = "posts" /\ f.name # "" }

\* the media files posts/{id}.jpg and posts/{id}.mp4
MediaFiles == { f \in PostsFiles : f.name \in {"jpg", "mp4"} }

MediaStepOutput ==
    { f \in fs : \/ f.sub = "posts"
                 \/ f.name = "profile_pic.jpg"
                 \/ impl = "lib" /\ args.download /\ f = DirPath(LibOutputDir(args)) }

\* C10 as stated: for a private record the media download step of either
\* program makes no request and writes no file or directory.
C10_PrivateSkipsEntirely ==
    PrivateRecord => (media_requests = {} /\ MediaStepOutput = {})

\* C10 amended: _download_content of src/main.py does nothing at all for a
\* private record; download_media of src/InstagramOSINT.py skips only the
\* posts: it makes no post request and writes nothing under posts/, but it
\* creates the output directory and requests the profile picture whenever
\* the record has a profile picture URL.
C10_PrivateGate ==
    PrivateRecord =>
        /\ impl = "cli" =>
              /\ media_requests = {} /\ MediaStepOutput = {}
              /\ pc \notin {"pic", "posts", "post_iter", "post_req"}
        /\ impl = "lib" =>
              /\ \A t \in media_requests : t.kind = "pic"
              /\ \A f \in fs : f.sub # "posts"
              /\ (pc = "done" /\ args.download) =>
                    /\ DirPath(LibOutputDir(args)) \in fs
                    /\ profile_data.profile_pic_url # "" =>
                          Target("pic", 0) \in media_requests

\* download_media has fetched and written the picture of a private profile
C10_Witness ==
    /\ PrivateRecord /\ impl = "lib" /\ args.download /\ pc = "done"
    /\ Target("pic", 0) \in media_requests
    /\ ProfilePicFile(output_dir) \in fs

(***************************************************************************)
(* Properties of failure handling.                                         *)
(***************************************************************************)
\* C11 as stated: a failed download never aborts the batch: at the end of
\* every --download run on a public profile a download has been attempted
\* for the profile picture (when the record has its URL) and for every
\* extracted post that has a media URL, whatever happened before it.
C11_EveryItemAttempted ==
    DownloadDone =>
        /\ profile_data.profile_pic_url # "" => Target("pic", 0) \in media_requests
        /\ \A i \in 1..Len(posts.recs) :
              posts.recs[i].display_url # "" =>
                  Target("post", posts.recs[i].id) \in media_requests

\* a file of that name anywhere on disk
FilesNamed(name) == { f \in fs : f.name = name }

\* C12 as stated: a run exits non-zero if and only if its profile fetch or
\* parse failed, whatever happens later; a run whose fetch or parse failed
\* has written no profile_data.json and downloaded no media.
C12_ExitCodeIffFetchFails ==
    pc = "done" =>
        /\ exit_code # 0 <=> ~profile_data.present
        /\ ~profile_data.present =>
              (FilesNamed("profile_data.json") = {} /\ media_requests = {})

\* C13 as stated: a run in which the write of profile_data.json raised ends
\* in a failure visible to its caller.
C13_ProfileWriteFailureSurfaced ==
    (pc = "done" /\ Failed("write", "profile_data", 0) \in failures) => exit_code # 0

(***************************************************************************)
(* Properties of the JSON-LD block and of captions.                        *)
(***************************************************************************)
\* C14 as stated: the record's display name is the JSON-LD `name` when the
\* block supplies it and the snapshot's full_name otherwise; its URL is the
\* JSON-LD mainEntityOfPage.@id when the block supplies it and the profile
\* URL made from the username otherwise; for every JSON-LD mapping.
C14_FirstAvailableWins ==
    profile_data.present =>
        /\ profile_data.profile_name =
              IF page.jsonld = "dict" /\ "name" \in page.ld_keys
              THEN "LD Name" ELSE page.user.full_name
        /\ profile_data.url =
              IF page.jsonld = "dict" /\ "mainEntityOfPage" \in page.ld_keys
              THEN "ld-url" ELSE ProfileUrl

\* the page with its JSON-LD block taken as the empty mapping
WithoutJsonLd(pg) == [pg EXCEPT !.jsonld = "absent", !.ld_keys = {}]

\* C15 as stated: a page whose JSON-LD block is not valid JSON, with a valid
\* meta tag and snapshot, still yields a ProfileRecord, the one made from
\* the meta tag and the snapshot alone.
C15_InvalidJsonLdNotFatal ==
    (ProfileRequestReturned /\ page.jsonld = "invalid" /\ page.has_meta
        /\ page.script = "ok") =>
        /\ profile_data.present
        /\ profile_data = Normalize(WithoutJsonLd(page), page.user)

DistinctEdgeIds(edges) ==
    \A i, j \in 1..Len(edges) : edges[i].id = edges[j].id => i = j

\* C16 as stated: every post node among the first `limit` edges has its
\* PostRecord, whose caption is the text of the first caption edge when the
\* caption-edges array is non-empty and "" when it is empty or absent.
C16_CaptionOfFirstEdge ==
    (ExtractionDone /\ profile_meta.has_edges /\ DistinctEdgeIds(profile_meta.edges)) =>
        \A i \in 1..Min(args.limit, Len(profile_meta.edges)) :
            \E j \in 1..Len(posts.recs) :
                /\ posts.recs[j].id = profile_meta.edges[i].id
                /\ posts.recs[j].caption =
                      IF profile_meta.edges[i].cap_edges = "one"
                      THEN profile_meta.edges[i].text ELSE ""

(***************************************************************************)
(* Properties of the order of the steps.                                   *)
(***************************************************************************)
\* a media download request is still to be made or to be retried
MediaRequestPending == pc \in {"pic", "post_req"}

\* the record files: profile_data.json and the posts metadata file
RecordFiles == FilesNamed("profile_data.json") \cup FilesNamed("posts_metadata.json")

\* C17 as stated: no write of profile_data.json or of the posts metadata
\* file happens before the last media download request of the run has
\* finished.
C17_WritesAfterDownloads == MediaRequestPending => RecordFiles = {}

PostRequested == \E t \in media_requests : t.kind = "post"

\* the write of profile_data.json has been made (it left the file or raised)
ProfileDataWritten ==
    \/ ProfileDataFile(output_dir) \in fs
    \/ Failed("write", "profile_data", 0) \in failures

\* C17 amended: every run is sequential and begins with the profile fetch
\* and parse: before they have succeeded nothing is extracted, requested or
\* written.  Then src/main.py writes profile_data.json, downloads the
\* picture, extracts and downloads the posts one by one, and writes
\* posts_metadata.json after the last download.  download_media of
\* src/InstagramOSINT.py downloads the picture, extracts all posts, writes
\* posts_metadata.json and only then downloads the posts; it writes no
\* profile_data.json, which is written only by save_data in a run that
\* downloads nothing.
C17_StepOrder ==
    /\ ~profile_data.present =>
          (media_requests = {} /\ RecordFiles = {} /\ posts = NonePosts)
    /\ impl = "cli" =>
          /\ pc \in {"content", "pic", "posts", "post_iter", "post_req"} =>
                ProfileDataWritten
          /\ media_requests # {} => ProfileDataWritten
          /\ (posts.ok /\ profile_data.profile_pic_url # "") =>
                Target("pic", 0) \in media_requests
          /\ PostsMetadataFile(output_dir) \in fs => pc = "done"
    /\ impl = "lib" =>
          /\ posts.ok => pc \notin {"media", "pic"}
          /\ (pc = "post_req" \/ PostRequested) =>
                (posts.ok /\ PostsMetadataFile(output_dir) \in fs)
          /\ args.download => FilesNamed("profile_data.json") = {}
          /\ FilesNamed("profile_data.json") # {} => media_requests = {}

\* src/main.py about to request a post's media: profile_data.json and the
\* picture are on disk, posts_metadata.json is not yet
C17_Witness ==
    /\ impl = "cli" /\ pc = "post_req"
    /\ ProfileDataFile(output_dir) \in fs
    /\ ProfilePicFile(output_dir) \in fs
    /\ PostsMetadataFile(output_dir) \notin fs
    /\ Len(posts.recs) = 2

(***************************************************************************)
(* Properties of concurrent starts (checked under SpecRace).               *)
(***************************************************************************)
Returned(p) == racers[p].pc = "returned"

\* C18: however the runs of _create_output_directory interleave, no two of
\* them return the same path: a path is created by at most one run, and a
\* run whose candidate was created by another run in the meantime ends with
\* an error instead of returning that path.
C18_NoSharedDirectory ==
    /\ \A p, q \in 1..MaxRacers :
          (p # q /\ Returned(p) /\ Returned(q)) => racers[p].k # racers[q].k
    /\ \A p \in 1..MaxRacers :
          Returned(p) => DirPath(ResultDir(racers[p].k)) \in fs
    /\ \A p \in 1..MaxRacers :
          racers[p].pc = "error" =>
              \E q \in 1..MaxRacers :
                  q # p /\ Returned(q) /\ racers[q].k = racers[p].k

\* both runs saw {username}_1 unused; the first created and returned it, the
\* second ended with the error
C18_Witness ==
    /\ racers[1] = [pc |-> "returned", k |-> 1]
    /\ racers[2] = [pc |-> "error", k |-> 1]
    /\ DirPath(ResultDir(0)) \in fs

(***************************************************************************)
(* Properties of the media files.                                          *)
(***************************************************************************)
\* the profile picture file and the files posts/{id}.jpg, posts/{id}.mp4
IsMediaFile(f) ==
    \/ f.name = "profile_pic.jpg"
    \/ f.sub = "posts" /\ f.name \in {"jpg", "mp4"}

\* the request whose response a media file holds
TargetOf(f) == IF f.sub = "posts" THEN Target("post", f.id) ELSE Target("pic", 0)

\* the item was given up: its _make_request call returned None
GivenUp(t) == Failed("request", t.kind, t.id) \in failures

\* no media file is on disk for an item that was given up (the items told
\* apart by their ids)
NoFileForGivenUp ==
    DistinctIds =>
        \A f \in fs : IsMediaFile(f) => (TargetOf(f) \in media_requests /\ ~GivenUp(TargetOf(f)))

\* C19: a media file appears on disk only in the step in which an attempt
\* of _make_request for that item's URL returned a successful response; an
\* item whose retries were exhausted has no file, not even an empty one.
C19_FileOnlyAfterSuccess ==
    /\ []NoFileForGivenUp
    /\ [][ \A f \in fs' \ fs :
             IsMediaFile(f) => (status' = "ok" /\ req_url' = TargetOf(f)) ]_vars

\* the first post was given up after all its attempts and has no file, the
\* picture and the second post were fetched and written
C19_Witness ==
    /\ pc = "done" /\ Len(posts.recs) = 2 /\ DistinctIds
    /\ GivenUp(Target("post", posts.recs[1].id))
    /\ MediaFile(output_dir, posts.recs[1]) \notin fs
    /\ MediaFile(output_dir, posts.recs[2]) \in fs
    /\ ProfilePicFile(output_dir) \in fs
    /\ max_retries >= 1
====
